---- MODULE Spec2Model ----
(***************************************************************************)
(* Model of the PII redaction core of zevbit-data-flywheel:                *)
(*   src/privacy/pii_redactor.py   PIIRedactor, ComplianceValidator        *)
(*   src/feedback/signal_capture.py FeedbackSignalCapture                  *)
(*                                                                         *)
(* A Python str is a sequence of one-character strings.  The four regular  *)
(* expressions of PIIRedactor.PATTERNS are data interpreted by a           *)
(* backtracking matcher that follows the semantics of Python's re module   *)
(* (leftmost match, greedy quantifiers with backtracking, \b computed from *)
(* the two neighbouring characters).                                       *)
(***************************************************************************)
EXTENDS Integers, Sequences, FiniteSets, TLC

VARIABLES
    op,      \* name of the last PIIRedactor / ComplianceValidator call
    arg,     \* its argument
    ret,     \* its return value
    cache,   \* PIIRedactor._anonymization_cache
    anonymize_names,  \* PIIRedactor.anonymize_names
    thread,   \* each thread's place in anonymize, and its arguments
    returned, \* what the calls of anonymize made by the threads returned
    heap,    \* the objects in memory, by address 1..Len(heap)
    root,    \* the address of the object last passed to redact
    res,     \* the address redact returned, 0 before the first call
    before,  \* the heap as it was when that call started
    importable,   \* whether zevbit_data_flywheel.privacy can be imported
    pc,           \* the statement a capture call is at, "idle" between calls
    calls,        \* the number of capture calls made so far
    call,         \* the call in progress: its kind, signal type and arguments
    signal,       \* the local variable signal
    clean_signal, \* the local variable clean_signal
    steps,        \* the steps the call in progress has completed, in order
    printed,      \* what it has printed
    outcome,      \* what the last call gave its caller: a value or an exception
    handed,       \* the records _send_to_data_lake was called with
    lake          \* the objects of the S3 bucket, by key

rvars == <<op, arg, ret, cache, anonymize_names>>

hvars == <<heap, root, res, before>>

cvars == <<importable, pc, calls, call, signal, clean_signal, steps, printed,
           outcome, handed, lake>>

\* the threads calling anonymize on one shared instance
tvars == <<thread, returned>>

vars == <<rvars, hvars, cvars, tvars>>

---------------------------------------------------------------------------
(* Characters and the character classes the patterns use *)

Digit == {"0", "1", "2", "3", "4", "5", "6", "7", "8", "9"}

Lower == {"a", "b", "c", "d", "e", "f", "g", "h", "i", "j", "k", "l", "m",
          "n", "o", "p", "q", "r", "s", "t", "u", "v", "w", "x", "y", "z"}

Upper == {"A", "B", "C", "D", "E", "F", "G", "H", "I", "J", "K", "L", "M",
          "N", "O", "P", "Q", "R", "S", "T", "U", "V", "W", "X", "Y", "Z"}

Letter == Lower \cup Upper

\* \w of a str pattern, on ASCII text
WordChar == Letter \cup Digit \cup {"_"}

\* \s
Space == {" ", "\t", "\n", "\r", "\f"}

\* [-\s]
HyphenSpace == {"-"} \cup Space

\* [-.\s]
PhoneSep == {"-", "."} \cup Space

\* [a-zA-Z0-9._%+-]
EmailLocal == Letter \cup Digit \cup {".", "_", "%", "+", "-"}

\* [a-zA-Z0-9.-]
EmailDomain == Letter \cup Digit \cup {".", "-"}

---------------------------------------------------------------------------
(* Regular expressions: a pattern is a sequence of items, each either the  *)
(* assertion \b or a character class with a greedy quantifier {lo,hi}.     *)

\* hi of an unbounded quantifier (+, {2,})
Unbounded == -1

WB == [k |-> "b"]

Rep(cls, lo, hi) == [k |-> "c", cls |-> cls, lo |-> lo, hi |-> hi]

Lit(c) == Rep({c}, 1, 1)

\* \b at position p (p is the index of the next character to read)
IsBoundary(text, p) ==
    LET wordBefore == p > 1 /\ text[p - 1] \in WordChar
        wordAfter  == p <= Len(text) /\ text[p] \in WordChar
    IN  wordBefore # wordAfter

RECURSIVE Run(_, _, _, _)
\* how many characters from position p on are in cls, at most hi of them
Run(text, p, cls, hi) ==
    IF hi = 0 \/ p > Len(text) \/ text[p] \notin cls
    THEN 0
    ELSE 1 + Run(text, p + 1, cls, IF hi = Unbounded THEN Unbounded ELSE hi - 1)

RECURSIVE MatchFrom(_, _, _, _)
RECURSIVE TryRep(_, _, _, _, _, _)
\* the position after the match of items i.. of pat at position p, in the
\* order a backtracking matcher tries them; 0 when there is none
MatchFrom(pat, i, text, p) ==
    IF i > Len(pat)
    THEN p
    ELSE IF pat[i].k = "b"
         THEN IF IsBoundary(text, p) THEN MatchFrom(pat, i + 1, text, p) ELSE 0
         ELSE TryRep(pat, i, text, p, Run(text, p, pat[i].cls, pat[i].hi), pat[i].lo)

\* greedy: the longest repetition first, then one character less
TryRep(pat, i, text, p, n, lo) ==
    IF n < lo
    THEN 0
    ELSE LET e == MatchFrom(pat, i + 1, text, p + n)
         IN  IF e # 0 THEN e ELSE TryRep(pat, i, text, p, n - 1, lo)

\* re.search from position start: <<first, after>> of the leftmost match,
\* <<0, 0>> when there is none
re_search(pat, text, start) ==
    LET starts == {s \in start..Len(text) : MatchFrom(pat, 1, text, s) # 0}
    IN  IF starts = {}
        THEN <<0, 0>>
        ELSE LET first == CHOOSE s \in starts : \A s2 \in starts : s <= s2
             IN  <<first, MatchFrom(pat, 1, text, first)>>

RECURSIVE re_sub_from(_, _, _, _)
re_sub_from(pat, repl, text, start) ==
    LET m == re_search(pat, text, start)
    IN  IF m[1] = 0
        THEN SubSeq(text, start, Len(text))
        ELSE SubSeq(text, start, m[1] - 1) \o repl
             \o re_sub_from(pat, repl, text, m[2])

\* re.sub(pattern, replacement, text): every non-overlapping match, left to
\* right, replaced
re_sub(pat, repl, text) == re_sub_from(pat, repl, text, 1)

RECURSIVE re_findall_from(_, _, _)
re_findall_from(pat, text, start) ==
    LET m == re_search(pat, text, start)
    IN  IF m[1] = 0
        THEN <<>>
        ELSE <<SubSeq(text, m[1], m[2] - 1)>> \o re_findall_from(pat, text, m[2])

\* re.findall(pattern, text): the matched substrings, in order
re_findall(pat, text) == re_findall_from(pat, text, 1)

---------------------------------------------------------------------------
(* PIIRedactor.PATTERNS and REPLACEMENTS *)

\* PATTERNS with phone as its first entry
PatternOrder_phone_first == <<"phone", "ssn", "credit_card", "email">>

\* the insertion order of the PATTERNS dict
PatternOrder == <<"ssn", "credit_card", "email", "phone">>

PiiTypes == {"ssn", "credit_card", "email", "phone"}

\* PATTERNS whose phone pattern takes [-\s] between the groups, not [-.\s]
PATTERNS_phone_nodot ==
    [ssn |-> <<WB, Rep(Digit, 3, 3), Lit("-"), Rep(Digit, 2, 2), Lit("-"),
               Rep(Digit, 4, 4), WB>>,
     credit_card |-> <<WB, Rep(Digit, 4, 4), Rep(HyphenSpace, 0, 1),
                       Rep(Digit, 4, 4), Rep(HyphenSpace, 0, 1),
                       Rep(Digit, 4, 4), Rep(HyphenSpace, 0, 1),
                       Rep(Digit, 4, 4), WB>>,
     email |-> <<WB, Rep(EmailLocal, 1, Unbounded), Lit("@"),
                 Rep(EmailDomain, 1, Unbounded), Lit("."),
                 Rep(Letter, 2, Unbounded), WB>>,
     phone |-> <<Rep({"("}, 0, 1), Rep(Digit, 3, 3), Rep({")"}, 0, 1),
                 Rep(HyphenSpace, 0, 1), Rep(Digit, 3, 3), Rep(HyphenSpace, 0, 1),
                 Rep(Digit, 4, 4), WB>>]

PATTERNS ==
    [ssn |-> <<WB, Rep(Digit, 3, 3), Lit("-"), Rep(Digit, 2, 2), Lit("-"),
               Rep(Digit, 4, 4), WB>>,
     credit_card |-> <<WB, Rep(Digit, 4, 4), Rep(HyphenSpace, 0, 1),
                       Rep(Digit, 4, 4), Rep(HyphenSpace, 0, 1),
                       Rep(Digit, 4, 4), Rep(HyphenSpace, 0, 1),
                       Rep(Digit, 4, 4), WB>>,
     email |-> <<WB, Rep(EmailLocal, 1, Unbounded), Lit("@"),
                 Rep(EmailDomain, 1, Unbounded), Lit("."),
                 Rep(Letter, 2, Unbounded), WB>>,
     phone |-> <<Rep({"("}, 0, 1), Rep(Digit, 3, 3), Rep({")"}, 0, 1),
                 Rep(PhoneSep, 0, 1), Rep(Digit, 3, 3), Rep(PhoneSep, 0, 1),
                 Rep(Digit, 4, 4), WB>>]

REPLACEMENTS ==
    [ssn |-> <<"[", "R", "E", "D", "A", "C", "T", "E", "D", "_", "S", "S", "N", "]">>,
     credit_card |-> <<"[", "R", "E", "D", "A", "C", "T", "E", "D", "_", "C", "C", "]">>,
     email |-> <<"[", "R", "E", "D", "A", "C", "T", "E", "D", "_", "E", "M", "A", "I", "L", "]">>,
     phone |-> <<"[", "R", "E", "D", "A", "C", "T", "E", "D", "_", "P", "H", "O", "N", "E", "]">>]

---------------------------------------------------------------------------
(* Python values: the record a caller hands to the redactor.  A dict is    *)
(* its keys in insertion order with the values beside them.                *)

PyStr(s) == [t |-> "str", s |-> s]

PyInt(n) == [t |-> "int", n |-> n]

\* a float written whole.frac, frac being its decimal digits
PyFloat(whole, frac) == [t |-> "float", whole |-> whole, frac |-> frac]

PyBool(b) == [t |-> "bool", b |-> b]

PyNone == [t |-> "none"]

PyList(items) == [t |-> "list", items |-> items]

PyDict(keys, vals) == [t |-> "dict", keys |-> keys, vals |-> vals]

\* a type redact() does not recognise
PyTuple(items) == [t |-> "tuple", items |-> items]

DigitChars == <<"0", "1", "2", "3", "4", "5", "6", "7", "8", "9">>

RECURSIVE NatStr(_)
NatStr(n) == IF n < 10 THEN <<DigitChars[n + 1]>>
             ELSE NatStr(n \div 10) \o <<DigitChars[(n % 10) + 1]>>

\* str(n) of an int
IntStr(n) == IF n < 0 THEN <<"-">> \o NatStr(-n) ELSE NatStr(n)

RECURSIVE Join(_, _)
\* sep.join(parts)
Join(parts, sep) ==
    IF parts = <<>> THEN <<>>
    ELSE IF Len(parts) = 1 THEN parts[1]
    ELSE parts[1] \o sep \o Join(Tail(parts), sep)

\* repr of a str without quote, backslash or non-printable characters
StrRepr(s) == <<"'">> \o s \o <<"'">>

RECURSIVE repr(_)
\* repr(data), which str() uses for everything but a str
repr(data) ==
    CASE data.t = "str" -> StrRepr(data.s)
      [] data.t = "int" -> IntStr(data.n)
      [] data.t = "float" -> IntStr(data.whole) \o <<".">> \o data.frac
      [] data.t = "bool" -> IF data.b THEN <<"T", "r", "u", "e">>
                            ELSE <<"F", "a", "l", "s", "e">>
      [] data.t = "none" -> <<"N", "o", "n", "e">>
      [] data.t = "list" ->
            <<"[">> \o Join([i \in 1..Len(data.items) |-> repr(data.items[i])],
                            <<",", " ">>) \o <<"]">>
      [] data.t = "tuple" ->
            <<"(">> \o Join([i \in 1..Len(data.items) |-> repr(data.items[i])],
                            <<",", " ">>)
            \o (IF Len(data.items) = 1 THEN <<",">> ELSE <<>>) \o <<")">>
      [] data.t = "dict" ->
            <<"{">> \o Join([i \in 1..Len(data.keys) |->
                               StrRepr(data.keys[i]) \o <<":", " ">>
                               \o repr(data.vals[i])],
                            <<",", " ">>) \o <<"}">>

\* str(data)
str(data) == IF data.t = "str" THEN data.s ELSE repr(data)

---------------------------------------------------------------------------
(* json.dumps and json.loads, for text without quotes, backslashes,        *)
(* control or non-ASCII characters (nothing to escape).  A parse result is *)
(* [ok, v, p]: whether the text parsed, the value, the position after it.  *)

JsonStr(s) == <<"\"">> \o s \o <<"\"">>

RECURSIVE json_dumps(_)
\* json.dumps(data) with the default separators; a tuple is written as a list
json_dumps(data) ==
    CASE data.t = "str" -> JsonStr(data.s)
      [] data.t = "int" -> IntStr(data.n)
      [] data.t = "float" -> IntStr(data.whole) \o <<".">> \o data.frac
      [] data.t = "bool" -> IF data.b THEN <<"t", "r", "u", "e">>
                            ELSE <<"f", "a", "l", "s", "e">>
      [] data.t = "none" -> <<"n", "u", "l", "l">>
      [] data.t \in {"list", "tuple"} ->
            <<"[">> \o Join([i \in 1..Len(data.items) |-> json_dumps(data.items[i])],
                            <<",", " ">>) \o <<"]">>
      [] data.t = "dict" ->
            <<"{">> \o Join([i \in 1..Len(data.keys) |->
                               JsonStr(data.keys[i]) \o <<":", " ">>
                               \o json_dumps(data.vals[i])],
                            <<",", " ">>) \o <<"}">>

JsonFail == [ok |-> FALSE, v |-> PyNone, p |-> 0]

JsonWs == {" ", "\t", "\n", "\r"}

RECURSIVE SkipWs(_, _)
SkipWs(text, p) ==
    IF p <= Len(text) /\ text[p] \in JsonWs THEN SkipWs(text, p + 1) ELSE p

\* text has the characters of word at position p
HasAt(text, p, word) ==
    p + Len(word) - 1 <= Len(text) /\ SubSeq(text, p, p + Len(word) - 1) = word

RECURSIVE DigitsValue(_)
\* int() of a sequence of digits
DigitsValue(ds) ==
    IF ds = <<>> THEN 0
    ELSE 10 * DigitsValue(SubSeq(ds, 1, Len(ds) - 1))
         + (CHOOSE d \in 0..9 : DigitChars[d + 1] = ds[Len(ds)])

\* a string: from the opening quote at p to the next quote
ParseString(text, p) ==
    LET closes == {q \in (p + 1)..Len(text) : text[q] = "\""}
    IN  IF closes = {}
        THEN JsonFail
        ELSE LET q == CHOOSE c \in closes : \A d \in closes : c <= d
             IN  [ok |-> TRUE, v |-> PyStr(SubSeq(text, p + 1, q - 1)), p |-> q + 1]

\* a number: -?(0|[1-9]\d*)(\.\d+)?
ParseNumber(text, p) ==
    LET neg == p <= Len(text) /\ text[p] = "-"
        p1 == IF neg THEN p + 1 ELSE p
        n == Run(text, p1, Digit, Unbounded)
        ni == IF n > 1 /\ text[p1] = "0" THEN 1 ELSE n
        p2 == p1 + ni
        nf == IF p2 <= Len(text) /\ text[p2] = "."
              THEN Run(text, p2 + 1, Digit, Unbounded) ELSE 0
        whole == DigitsValue(SubSeq(text, p1, p2 - 1))
    IN  IF ni = 0 THEN JsonFail
        ELSE IF nf = 0
             THEN [ok |-> TRUE, v |-> PyInt(IF neg THEN -whole ELSE whole), p |-> p2]
             ELSE [ok |-> TRUE,
                   v |-> PyFloat(IF neg THEN -whole ELSE whole,
                                 SubSeq(text, p2 + 1, p2 + nf)),
                   p |-> p2 + nf + 1]

\* d[k] = v on a dict: a key already there keeps its place
DictSet(d, k, v) ==
    IF \E i \in 1..Len(d.keys) : d.keys[i] = k
    THEN PyDict(d.keys, [i \in 1..Len(d.keys) |-> IF d.keys[i] = k THEN v ELSE d.vals[i]])
    ELSE PyDict(Append(d.keys, k), Append(d.vals, v))

RECURSIVE ParseValue(_, _)
RECURSIVE ParseItems(_, _, _)
RECURSIVE ParseMembers(_, _, _)
ParseValue(text, p0) ==
    LET p == SkipWs(text, p0)
    IN  IF p > Len(text) THEN JsonFail
        ELSE CASE text[p] = "\"" -> ParseString(text, p)
               [] text[p] = "{" ->
                     LET q == SkipWs(text, p + 1)
                     IN  IF q <= Len(text) /\ text[q] = "}"
                         THEN [ok |-> TRUE, v |-> PyDict(<<>>, <<>>), p |-> q + 1]
                         ELSE ParseMembers(text, q, PyDict(<<>>, <<>>))
               [] text[p] = "[" ->
                     LET q == SkipWs(text, p + 1)
                     IN  IF q <= Len(text) /\ text[q] = "]"
                         THEN [ok |-> TRUE, v |-> PyList(<<>>), p |-> q + 1]
                         ELSE ParseItems(text, q, <<>>)
               [] HasAt(text, p, <<"n", "u", "l", "l">>) ->
                     [ok |-> TRUE, v |-> PyNone, p |-> p + 4]
               [] HasAt(text, p, <<"t", "r", "u", "e">>) ->
                     [ok |-> TRUE, v |-> PyBool(TRUE), p |-> p + 4]
               [] HasAt(text, p, <<"f", "a", "l", "s", "e">>) ->
                     [ok |-> TRUE, v |-> PyBool(FALSE), p |-> p + 5]
               [] text[p] \in Digit \cup {"-"} -> ParseNumber(text, p)
               [] OTHER -> JsonFail

\* the items of an array from position p on, acc being those read so far
ParseItems(text, p, acc) ==
    LET item == ParseValue(text, p)
        q == SkipWs(text, item.p)
    IN  IF ~item.ok \/ q > Len(text) THEN JsonFail
        ELSE IF text[q] = "]"
             THEN [ok |-> TRUE, v |-> PyList(Append(acc, item.v)), p |-> q + 1]
        ELSE IF text[q] = ","
             THEN ParseItems(text, q + 1, Append(acc, item.v))
        ELSE JsonFail

\* the members of an object from position p on, acc being the dict so far
ParseMembers(text, p0, acc) ==
    LET p == SkipWs(text, p0)
        key == IF p <= Len(text) /\ text[p] = "\"" THEN ParseString(text, p) ELSE JsonFail
        c == SkipWs(text, key.p)
        val == IF key.ok /\ c <= Len(text) /\ text[c] = ":"
               THEN ParseValue(text, c + 1) ELSE JsonFail
        q == SkipWs(text, val.p)
    IN  IF ~val.ok \/ q > Len(text) THEN JsonFail
        ELSE IF text[q] = "}"
             THEN [ok |-> TRUE, v |-> DictSet(acc, key.v.s, val.v), p |-> q + 1]
        ELSE IF text[q] = ","
             THEN ParseMembers(text, q + 1, DictSet(acc, key.v.s, val.v))
        ELSE JsonFail

\* json.loads(text): ok is FALSE where it raises JSONDecodeError
json_loads(text) ==
    LET r == ParseValue(text, 1)
    IN  IF r.ok /\ SkipWs(text, r.p) > Len(text) THEN r ELSE JsonFail

---------------------------------------------------------------------------
(* PIIRedactor *)

RECURSIVE redact_patterns_from(_, _)
\* the loop of _redact_string from the i-th entry of PATTERNS on
redact_patterns_from(text, i) ==
    IF i > Len(PatternOrder)
    THEN text
    ELSE redact_patterns_from(
             re_sub(PATTERNS[PatternOrder[i]], REPLACEMENTS[PatternOrder[i]], text),
             i + 1)

_redact_string(text) == redact_patterns_from(text, 1)

RECURSIVE redact_keys(_)
\* redact that rewrites the keys of a mapping as well
redact_keys(data) ==
    CASE data.t = "str" -> PyStr(_redact_string(data.s))
      [] data.t = "dict" ->
            PyDict([i \in 1..Len(data.keys) |-> _redact_string(data.keys[i])],
                   [i \in 1..Len(data.vals) |-> redact_keys(data.vals[i])])
      [] data.t = "list" ->
            PyList([i \in 1..Len(data.items) |-> redact_keys(data.items[i])])
      [] OTHER -> data

\* redact that rewrites the strings directly in a mapping or list and does
\* not descend further
redact_shallow(data) ==
    LET leaf(v) == IF v.t = "str" THEN PyStr(_redact_string(v.s)) ELSE v
    IN  CASE data.t = "str" -> leaf(data)
          [] data.t = "dict" ->
                PyDict(data.keys, [i \in 1..Len(data.vals) |-> leaf(data.vals[i])])
          [] data.t = "list" ->
                PyList([i \in 1..Len(data.items) |-> leaf(data.items[i])])
          [] OTHER -> data

RECURSIVE redact(_)
redact(data) ==
    CASE data.t = "str" -> PyStr(_redact_string(data.s))
      [] data.t = "dict" ->
            PyDict(data.keys, [i \in 1..Len(data.vals) |-> redact(data.vals[i])])
      [] data.t = "list" ->
            PyList([i \in 1..Len(data.items) |-> redact(data.items[i])])
      [] OTHER -> data

---------------------------------------------------------------------------
(* redact on objects in memory: a list holds the addresses of its items, a *)
(* dict the addresses of its values, and building a dict or list allocates *)
(* a new object.                                                           *)

RECURSIVE redact_heap_inplace(_, _)
RECURSIVE redact_items_inplace(_, _)
\* redact that writes the redacted values back into the container it was given
redact_heap_inplace(h, id) ==
    CASE h[id].t = "str" ->
            [h |-> Append(h, PyStr(_redact_string(h[id].s))), id |-> Len(h) + 1]
      [] h[id].t = "dict" ->
            LET r == redact_items_inplace(h, h[id].vals)
            IN  [h |-> [r.h EXCEPT ![id] = PyDict(h[id].keys, r.ids)], id |-> id]
      [] h[id].t = "list" ->
            LET r == redact_items_inplace(h, h[id].items)
            IN  [h |-> [r.h EXCEPT ![id] = PyList(r.ids)], id |-> id]
      [] OTHER -> [h |-> h, id |-> id]

redact_items_inplace(h, ids) ==
    IF ids = <<>>
    THEN [h |-> h, ids |-> <<>>]
    ELSE LET first == redact_heap_inplace(h, Head(ids))
             rest == redact_items_inplace(first.h, Tail(ids))
         IN  [h |-> rest.h, ids |-> <<first.id>> \o rest.ids]

RECURSIVE redact_heap(_, _)
RECURSIVE redact_items(_, _)
\* redact(data), data being the object at address id of heap h: the heap it
\* leaves and the address of what it returns
redact_heap(h, id) ==
    CASE h[id].t = "str" ->
            [h |-> Append(h, PyStr(_redact_string(h[id].s))), id |-> Len(h) + 1]
      [] h[id].t = "dict" ->
            LET r == redact_items(h, h[id].vals)
            IN  [h |-> Append(r.h, PyDict(h[id].keys, r.ids)), id |-> Len(r.h) + 1]
      [] h[id].t = "list" ->
            LET r == redact_items(h, h[id].items)
            IN  [h |-> Append(r.h, PyList(r.ids)), id |-> Len(r.h) + 1]
      [] OTHER -> [h |-> h, id |-> id]

\* the comprehension over the items, left to right
redact_items(h, ids) ==
    IF ids = <<>>
    THEN [h |-> h, ids |-> <<>>]
    ELSE LET first == redact_heap(h, Head(ids))
             rest == redact_items(first.h, Tail(ids))
         IN  [h |-> rest.h, ids |-> <<first.id>> \o rest.ids]

\* the first 6 characters of hashlib.sha256(identifier.encode()).hexdigest(),
\* tabulated for the identifiers the calls are made with
Sha256Hex6(identifier) ==
    CASE identifier = <<>> -> <<"e", "3", "b", "0", "c", "4">>
      [] identifier = <<"c">> -> <<"2", "e", "7", "d", "2", "c">>
      [] identifier = <<"s", "a", "x", "l", "e", ":", "c">> -> <<"2", "e", "7", "d", "2", "c">>

\* an anonymize that keeps only the newest entry
anonymize_evicting(anonymization_cache, identifier, category) ==
    LET cache_key == category \o <<":">> \o identifier
        anonymized == category \o <<"_">> \o Sha256Hex6(identifier)
    IN  IF cache_key \in DOMAIN anonymization_cache
        THEN [ret |-> anonymization_cache[cache_key], cache |-> anonymization_cache]
        ELSE [ret |-> anonymized, cache |-> (cache_key :> anonymized)]

\* anonymize(identifier, category) on an instance whose cache is
\* anonymization_cache: what it returns and the cache it leaves
anonymize(anonymization_cache, identifier, category) ==
    LET cache_key == category \o <<":">> \o identifier
        anonymized == category \o <<"_">> \o Sha256Hex6(identifier)
    IN  IF cache_key \in DOMAIN anonymization_cache
        THEN [ret |-> anonymization_cache[cache_key], cache |-> anonymization_cache]
        ELSE [ret |-> anonymized,
              cache |-> anonymization_cache @@ (cache_key :> anonymized)]

\* the set the returned list is built from
detect_pii(data) ==
    {pii_type \in PiiTypes : re_search(PATTERNS[pii_type], str(data), 1)[1] # 0}

validate_no_pii(data) == Cardinality(detect_pii(data)) = 0

Range(f) == {f[i] : i \in DOMAIN f}

Min(a, b) == IF a < b THEN a ELSE b

\* get_pii_report that gives every match as an example
get_pii_report_all_examples(data) ==
    LET text == str(data)
        matches == [pii_type \in PiiTypes |-> re_findall(PATTERNS[pii_type], text)]
        hit(pii_type) == matches[pii_type] # <<>>
        types == SelectSeq(PatternOrder, hit)
        detected == [pii_type \in Range(types) |->
                        [count |-> Len(matches[pii_type]),
                         examples |-> matches[pii_type]]]
    IN  [pii_detected |-> Len(types) > 0,
         pii_types |-> types,
         details |-> detected]

get_pii_report(data) ==
    LET text == str(data)
        matches == [pii_type \in PiiTypes |-> re_findall(PATTERNS[pii_type], text)]
        hit(pii_type) == matches[pii_type] # <<>>
        types == SelectSeq(PatternOrder, hit)
        detected == [pii_type \in Range(types) |->
                        [count |-> Len(matches[pii_type]),
                         examples |-> SubSeq(matches[pii_type], 1,
                                             Min(3, Len(matches[pii_type])))]]
    IN  [pii_detected |-> Len(types) > 0,
         pii_types |-> types,
         details |-> detected]

---------------------------------------------------------------------------
(* ComplianceValidator *)

TypeName ==
    [ssn |-> <<"s", "s", "n">>,
     credit_card |-> <<"c", "r", "e", "d", "i", "t", "_", "c", "a", "r", "d">>,
     email |-> <<"e", "m", "a", "i", "l">>,
     phone |-> <<"p", "h", "o", "n", "e">>]

\* validate_data_for_storage with the verdict inverted
validate_inverted(data) ==
    LET pii_report == get_pii_report(data)
    IN  [compliant |-> pii_report.pii_detected,
         issues |-> <<>>,
         pii_report |-> pii_report]

validate_data_for_storage(data) ==
    LET pii_report == get_pii_report(data)
        issues == IF pii_report.pii_detected
                  THEN << <<"P", "I", "I", " ", "d", "e", "t", "e", "c", "t", "e", "d", ":", " ">>
                          \o Join([i \in 1..Len(pii_report.pii_types) |->
                                      TypeName[pii_report.pii_types[i]]],
                                  <<",", " ">>) >>
                  ELSE <<>>
    IN  [compliant |-> Len(issues) = 0,
         issues |-> issues,
         pii_report |-> pii_report]

---------------------------------------------------------------------------
(* The inputs the operations are called with *)

\* the literals of the redaction and recall tests, with their type
Corpus ==
    << [type |-> "ssn", lit |-> <<"1", "2", "3", "-", "4", "5", "-", "6", "7", "8", "9">>],
       [type |-> "phone", lit |-> <<"(", "5", "5", "5", ")", " ", "1", "2", "3", "-", "4", "5", "6", "7">>],
       [type |-> "phone", lit |-> <<"5", "5", "5", "-", "1", "2", "3", "-", "4", "5", "6", "7">>],
       [type |-> "phone", lit |-> <<"5", "5", "5", ".", "1", "2", "3", ".", "4", "5", "6", "7">>],
       [type |-> "phone", lit |-> <<"5", "5", "5", "1", "2", "3", "4", "5", "6", "7">>],
       [type |-> "credit_card", lit |-> <<"1", "2", "3", "4", "-", "5", "6", "7", "8", "-", "9", "0", "1", "2", "-", "3", "4", "5", "6">>],
       [type |-> "credit_card", lit |-> <<"1", "2", "3", "4", " ", "5", "6", "7", "8", " ", "9", "0", "1", "2", " ", "3", "4", "5", "6">>],
       [type |-> "credit_card", lit |-> <<"1", "2", "3", "4", "5", "6", "7", "8", "9", "0", "1", "2", "3", "4", "5", "6">>],
       [type |-> "email", lit |-> <<"u", "s", "e", "r", "@", "d", "o", "m", "a", "i", "n", ".", "c", "o", "m">>],
       [type |-> "email", lit |-> <<"f", "i", "r", "s", "t", ".", "l", "a", "s", "t", "@", "c", "o", "m", "p", "a", "n", "y", ".", "c", "o", ".", "u", "k">>] >>

CorpusLits == {Corpus[i].lit : i \in DOMAIN Corpus}

\* text between the literals
Glue == { <<" ">>, <<"x">>, <<"1">> }

Fragments == CorpusLits \cup Glue

\* how many fragments a string is made of, at most
MaxParts == 2

RECURSIVE Concat(_)
Concat(parts) == IF parts = <<>> THEN <<>> ELSE parts[1] \o Concat(Tail(parts))

Strings == {Concat(parts) : parts \in UNION {[1..n -> Fragments] : n \in 0..MaxParts}}

\* prose around a literal: it ends, and the text after the literal starts,
\* with a character that is not a word character
ProsePre == { <<>>, <<"c", "a", "l", "l", " ", "m", "e", " ", "a", "t", " ">>,
              <<"s", "s", "n", ":", " ">>, <<"(">>, <<"1", "-">> }

ProsePost == { <<>>, <<" ", "t", "o", "d", "a", "y">>, <<".">>, <<")">>, <<"-", "1">> }

InProse(lit) == {pre \o lit \o post : pre \in ProsePre, post \in ProsePost}

ProseStrings == UNION {InProse(lit) : lit \in CorpusLits}

JohnEmail == <<"j", "o", "h", "n", "@", "e", "x", "a", "m", "p", "l", "e", ".", "c", "o", "m">>

\* the leaves of a structured record
Leaves ==
    { PyStr(JohnEmail),
      PyStr(<<"(", "5", "5", "5", ")", " ", "1", "2", "3", "-", "4", "5", "6", "7">>),
      PyStr(<<"J", "o", "h", "n", " ", "S", "m", "i", "t", "h">>),
      PyInt(8500), PyInt(2025550123), PyFloat(8500, <<"5">>), PyBool(TRUE), PyNone,
      PyTuple(<<PyStr(JohnEmail)>>), PyList(<<>>), PyDict(<<>>, <<>>) }

\* the second element of a list
Siblings ==
    { PyInt(8500),
      PyDict(<< <<"i", "d">>, <<"c", "o", "n", "t", "a", "c", "t", "_", "e", "m", "a", "i", "l">> >>,
             << PyInt(2),
                PyStr(<<"p", "r", "o", "j", "e", "c", "t", "2", "@", "e", "x", "a", "m", "p", "l", "e", ".", "c", "o", "m">>) >>) }

\* the keys of a mapping of two entries, and its second value
Entries ==
    { [k1 |-> <<"e", "m", "a", "i", "l">>, k2 |-> <<"c", "o", "s", "t">>, v2 |-> PyInt(8500)],
      [k1 |-> <<"a", "@", "b", ".", "c", "o">>, k2 |-> <<"e", "m", "a", "i", "l">>,
       v2 |-> PyStr(JohnEmail)] }

\* how deep lists and mappings are nested, at most
MaxDepth == 2

RECURSIVE Nest(_)
Nest(d) ==
    IF d = 0
    THEN Leaves
    ELSE LET S == Nest(d - 1)
         IN  S \cup {PyList(<<a, b>>) : a \in S, b \in Siblings}
               \cup {PyDict(<<e.k1, e.k2>>, <<a, e.v2>>) : a \in S, e \in Entries}

Values == {PyStr(s) : s \in Strings} \cup Nest(MaxDepth)

\* the first n digits of a card number
CardDigits(n) ==
    SubSeq(<<"1", "2", "3", "4", "5", "6", "7", "8", "9", "0", "1", "2", "3", "4", "5", "6">>,
           1, n)

RECURSIVE Clusters(_, _)
\* digits in clusters of four with sep between them
Clusters(digits, sep) ==
    IF Len(digits) <= 4
    THEN digits
    ELSE SubSeq(digits, 1, 4) \o sep \o Clusters(SubSeq(digits, 5, Len(digits)), sep)

CardLengths == 13..16

\* runs of digits of the lengths of card numbers: ungrouped, and in
\* clusters of four separated by a hyphen or a space
CardRuns ==
    {Clusters(CardDigits(n), sep) : n \in CardLengths, sep \in {<<>>, <<"-">>, <<" ">>}}

\* what stands before and after a run
CardContexts ==
    { [pre |-> <<>>, post |-> <<>>],
      [pre |-> <<"c", "a", "r", "d", ":", " ">>, post |-> <<".">>] }

CardTexts == {ctx.pre \o run \o ctx.post : run \in CardRuns, ctx \in CardContexts}

\* texts in which two or three patterns match overlapping spans
OverlapTexts ==
    { <<"1", "2", "3", "-", "4", "5", "-", "6", "7", "8", "9", "-", "5", "5", "5", "-", "1", "2", "3", "4">>,
      <<"5", "5", "5", "1", "2", "3", "4", "5", "6", "7", "@", "e", "x", "a", "m", "p", "l", "e", ".", "c", "o", "m">>,
      <<"1", "2", "3", "-", "4", "5", "-", "6", "7", "8", "9", "@", "e", "x", "a", "m", "p", "l", "e", ".", "c", "o", "m">>,
      <<"1", "2", "3", "4", "5", "6", "7", "8", "9", "0", "1", "2", "3", "4", "5", "6", "@", "e", "x", "a", "m", "p", "l", "e", ".", "c", "o", "m">>,
      <<"1", "2", "3", "-", "4", "5", "-", "6", "7", "8", "9", "-", "1", "2", "3", "4", "5", "6", "7", "8", "-", "9", "0", "1", "2">> }

\* records for a report: two fields with an email address and one with a
\* phone number, and a list of more addresses than a report gives examples of
ReportRecords ==
    { PyDict(<< <<"c", "u", "s", "t", "o", "m", "e", "r", "_", "e", "m", "a", "i", "l">>, <<"b", "a", "c", "k", "u", "p", "_", "e", "m", "a", "i", "l">>, <<"p", "h", "o", "n", "e">>, <<"c", "o", "s", "t">> >>,
             << PyStr(JohnEmail),
                PyStr(<<"b", "a", "c", "k", "u", "p", "@", "e", "x", "a", "m", "p", "l", "e", ".", "c", "o", "m">>),
                PyStr(<<"(", "5", "5", "5", ")", " ", "1", "2", "3", "-", "4", "5", "6", "7">>),
                PyInt(8500) >>),
      PyList(<< PyStr(<<"a", "@", "e", "x", "a", "m", "p", "l", "e", ".", "c", "o", "m">>), PyStr(<<"b", "@", "e", "x", "a", "m", "p", "l", "e", ".", "c", "o", "m">>),
                PyStr(<<"c", "@", "e", "x", "a", "m", "p", "l", "e", ".", "c", "o", "m">>), PyStr(<<"d", "@", "e", "x", "a", "m", "p", "l", "e", ".", "c", "o", "m">>) >>) }

---------------------------------------------------------------------------
(* The variables a specification does not use *)

NoHeap == heap = <<>> /\ root = 0 /\ res = 0 /\ before = <<>>

MaxCallers == 2

\* the threads that share the instance
Callers == 1..MaxCallers

IdleThread == [pc |-> "idle"]

\* no thread is in anonymize and none has called it
NoThreads == thread = [t \in Callers |-> IdleThread] /\ returned = {}

NoCalls ==
    /\ op = "init"
    /\ arg = PyNone
    /\ ret = PyNone
    /\ cache = <<>>
    /\ anonymize_names = TRUE
    /\ NoThreads

NoOutcome == [kind |-> "none", v |-> PyNone]

NoCall == [kind |-> "none"]

\* no capture call was made
CaptureIdle ==
    /\ pc = "idle"
    /\ calls = 0
    /\ call = NoCall
    /\ signal = PyNone
    /\ clean_signal = PyNone
    /\ steps = <<>>
    /\ printed = <<>>
    /\ outcome = NoOutcome
    /\ handed = {}
    /\ lake = << >>

NoCapture == importable = TRUE /\ CaptureIdle

---------------------------------------------------------------------------
(* The calls on one PIIRedactor and the ComplianceValidator built on it.   *)
(* arg is the record the caller holds; any one method is called on it, and *)
(* what redact returned may be passed on as the next argument.  The five   *)
(* methods read nothing but their argument, so a second call on the same   *)
(* record returns what the first did.                                      *)

\* the caller holds a record no method was called on yet
AtHand == op \in {"init", "passed"}

Redact ==
    /\ AtHand
    /\ op' = "redact"
    /\ ret' = redact(arg)
    /\ UNCHANGED <<arg, cache, anonymize_names, hvars, cvars, tvars>>

DetectPii ==
    /\ AtHand
    /\ op' = "detect_pii"
    /\ ret' = detect_pii(arg)
    /\ UNCHANGED <<arg, cache, anonymize_names, hvars, cvars, tvars>>

ValidateNoPii ==
    /\ AtHand
    /\ op' = "validate_no_pii"
    /\ ret' = validate_no_pii(arg)
    /\ UNCHANGED <<arg, cache, anonymize_names, hvars, cvars, tvars>>

GetPiiReport ==
    /\ AtHand
    /\ op' = "get_pii_report"
    /\ ret' = get_pii_report(arg)
    /\ UNCHANGED <<arg, cache, anonymize_names, hvars, cvars, tvars>>

ValidateDataForStorage ==
    /\ AtHand
    /\ op' = "validate_data_for_storage"
    /\ ret' = validate_data_for_storage(arg)
    /\ UNCHANGED <<arg, cache, anonymize_names, hvars, cvars, tvars>>

\* the caller goes on with the redacted record (clean = redactor.redact(data))
PassOn ==
    /\ op = "redact"
    /\ ret # arg
    /\ op' = "passed"
    /\ arg' = ret
    /\ ret' = PyNone
    /\ UNCHANGED <<cache, anonymize_names, hvars, cvars, tvars>>

\* PIIRedactor.__init__, and the record the caller starts with
Init ==
    /\ op = "init"
    /\ arg \in Values \cup ReportRecords
               \cup {PyStr(s) : s \in ProseStrings \cup CardTexts \cup OverlapTexts}
    /\ ret = PyNone
    /\ cache = <<>>
    /\ anonymize_names = TRUE
    /\ NoThreads
    /\ NoHeap
    /\ NoCapture

Next ==
    \/ Redact
    \/ DetectPii
    \/ ValidateNoPii
    \/ GetPiiReport
    \/ ValidateDataForStorage
    \/ PassOn

Spec == Init /\ [][Next]_vars

---------------------------------------------------------------------------
(* Properties of redaction, detection and the gate *)

\* C1: redact is idempotent: redacting what redact returned changes nothing
\* (for a string, _redact_string applied to its own output changes nothing).
C1_RedactIdempotent == op = "redact" => redact(ret) = ret

\* C2: what redact returns passes the gate: validate_data_for_storage finds
\* it compliant with no issues, and validate_no_pii is true of it.
C2_RedactedPassesGate ==
    op = "redact" =>
        /\ validate_data_for_storage(ret).compliant
        /\ validate_data_for_storage(ret).issues = <<>>
        /\ validate_no_pii(ret)

\* C3: recall over the corpus: detect_pii returns the literal's type when the
\* literal is the whole input and when it stands in surrounding prose.
C3_CorpusRecall ==
    op = "detect_pii" =>
        \A i \in DOMAIN Corpus :
            (arg.t = "str" /\ arg.s \in InProse(Corpus[i].lit)) => Corpus[i].type \in ret

C3_Witness ==
    /\ op = "detect_pii"
    /\ arg = PyStr(<<"c", "a", "l", "l", " ", "m", "e", " ", "a", "t", " ">>
                   \o Corpus[3].lit \o <<" ", "t", "o", "d", "a", "y">>)
    /\ ret = {"phone"}

RECURSIVE SameShape(_, _)
\* b has the structure of a: the same keys in the same order, the same
\* lengths, and every leaf that is not a str is the same
SameShape(a, b) ==
    CASE a.t = "str" -> b.t = "str"
      [] a.t = "dict" ->
            /\ b.t = "dict"
            /\ b.keys = a.keys
            /\ Len(b.vals) = Len(a.vals)
            /\ \A i \in 1..Len(a.vals) : SameShape(a.vals[i], b.vals[i])
      [] a.t = "list" ->
            /\ b.t = "list"
            /\ Len(b.items) = Len(a.items)
            /\ \A i \in 1..Len(a.items) : SameShape(a.items[i], b.items[i])
      [] OTHER -> b = a

\* C7: redact preserves the shape: keys and their order, list lengths, and
\* every leaf that is not a str, dict or list is returned unchanged.
C7_ShapePreserved == op = "redact" => SameShape(arg, ret)

C7_Witness ==
    /\ op = "redact"
    /\ arg.t = "dict"
    /\ Len(arg.keys) = 2
    /\ arg.keys[1] = <<"a", "@", "b", ".", "c", "o">>
    /\ arg.vals[1].t = "list"
    /\ Len(arg.vals[1].items) = 2
    /\ arg.vals[1].items[1].t = "tuple"
    /\ ret # arg

\* needle is a substring of hay
Contains(hay, needle) ==
    \E i \in 1..(Len(hay) - Len(needle) + 1) :
        SubSeq(hay, i, i + Len(needle) - 1) = needle

\* C9: compliant, issues being empty and no PII being detected are the same;
\* when a type is detected issues holds one string naming every detected
\* type.
C9_VerdictConsistent ==
    op = "validate_data_for_storage" =>
        /\ ret.compliant = (ret.issues = <<>>)
        /\ ret.compliant = ~ret.pii_report.pii_detected
        /\ ret.pii_report.pii_detected = (detect_pii(arg) # {})
        /\ detect_pii(arg) # {} =>
              /\ Len(ret.issues) = 1
              /\ \A pii_type \in detect_pii(arg) :
                    Contains(ret.issues[1], TypeName[pii_type])
        /\ detect_pii(arg) = {} => (ret.issues = <<>> /\ ret.compliant)

C9_Witness ==
    /\ op = "validate_data_for_storage"
    /\ ~ret.compliant
    /\ Len(ret.issues) = 1
    /\ ret.pii_report.pii_types = <<"email", "phone">>

\* the children of a list or mapping
Children(v) ==
    CASE v.t = "list" -> v.items
      [] v.t = "dict" -> v.vals
      [] OTHER -> <<>>

RECURSIVE Paths(_)
\* the paths to the leaves of v, a path being the indices to follow
Paths(v) ==
    IF v.t \in {"list", "dict"}
    THEN UNION {{<<i>> \o p : p \in Paths(Children(v)[i])} : i \in DOMAIN Children(v)}
    ELSE {<<>>}

RECURSIVE At(_, _)
At(v, path) == IF path = <<>> THEN v ELSE At(Children(v)[path[1]], Tail(path))

\* C10: redaction reaches every string leaf at every depth: the leaf at each
\* path of the result is _redact_string of the leaf at that path of the
\* input, an email there becomes the placeholder, and every other leaf is the
\* input's.
C10_EveryLeafRedacted ==
    op = "redact" =>
        /\ Paths(ret) = Paths(arg)
        /\ \A path \in Paths(arg) :
              IF At(arg, path).t = "str"
              THEN /\ At(ret, path) = PyStr(_redact_string(At(arg, path).s))
                   /\ At(arg, path).s = JohnEmail => At(ret, path).s = REPLACEMENTS.email
              ELSE At(ret, path) = At(arg, path)

C10_Witness ==
    /\ op = "redact"
    /\ \E path \in Paths(arg) :
          /\ Len(path) = 3
          /\ At(arg, path) = PyStr(<<"p", "r", "o", "j", "e", "c", "t", "2", "@", "e", "x", "a", "m", "p", "l", "e", ".", "c", "o", "m">>)
          /\ At(ret, path) = PyStr(REPLACEMENTS.email)
          /\ At(arg, <<path[1], path[2], 1>>) = PyInt(2)
          /\ At(ret, <<path[1], path[2], 1>>) = PyInt(2)

\* C11: a delimited run of 13, 14, 15 or 16 digits, ungrouped or in clusters
\* of four separated by hyphen or space, is detected as credit_card, and
\* redact puts [REDACTED_CC] in its place.
C11_CardThirteenToSixteen ==
    \A run \in CardRuns, ctx \in CardContexts :
        arg = PyStr(ctx.pre \o run \o ctx.post) =>
            /\ op = "detect_pii" => "credit_card" \in ret
            /\ op = "redact" =>
                  ret = PyStr(ctx.pre \o REPLACEMENTS.credit_card \o ctx.post)

\* the spans <<first, after>> at which pat matches text
Spans(pat, text) ==
    {<<s, MatchFrom(pat, 1, text, s)>> :
        s \in {s2 \in 1..Len(text) : MatchFrom(pat, 1, text, s2) # 0}}

Overlap(A, B) == A[1] < B[2] /\ B[1] < A[2]

\* how many times needle occurs in hay
Count(hay, needle) ==
    Cardinality({i \in 1..(Len(hay) - Len(needle) + 1) :
                    SubSeq(hay, i, i + Len(needle) - 1) = needle})

\* the order of the categories as stated
CategoryOrder == <<"ssn", "credit_card", "email", "phone">>

RECURSIVE AfterCategories(_, _)
\* text after the first n categories were substituted, each on the output
\* of the one before
AfterCategories(text, n) ==
    IF n = 0
    THEN text
    ELSE re_sub(PATTERNS[CategoryOrder[n]], REPLACEMENTS[CategoryOrder[n]],
                AfterCategories(text, n - 1))

RECURSIVE ScanSpans(_, _, _)
\* the matches a substitution of pat replaces, left to right
ScanSpans(pat, text, start) ==
    LET m == re_search(pat, text, start)
    IN  IF m[1] = 0 THEN <<>> ELSE <<m>> \o ScanSpans(pat, text, m[2])

RECURSIVE Shift(_, _, _)
\* how far the text after the first k spans has moved when each is replaced
\* by a text of length n
Shift(spans, k, n) ==
    IF k = 0 THEN 0
    ELSE Shift(spans, k - 1, n) + n - (spans[k][2] - spans[k][1])

C13_ReportContent ==
    op = "get_pii_report" =>
        /\ Range(ret.pii_types) = detect_pii(arg)
        /\ Len(ret.pii_types) = Cardinality(detect_pii(arg))
        /\ ret.pii_detected = (detect_pii(arg) # {})
        /\ DOMAIN ret.details = detect_pii(arg)
        /\ \A pii_type \in detect_pii(arg) :
              LET spans == ScanSpans(PATTERNS[pii_type], str(arg), 1)
                  found == ret.details[pii_type]
              IN  /\ found.count = Len(spans)
                  /\ Len(found.examples) = Min(3, found.count)
                  /\ \A k \in 1..Len(found.examples) :
                        found.examples[k] = SubSeq(str(arg), spans[k][1], spans[k][2] - 1)
        /\ (arg.t = "dict" /\ arg \in ReportRecords) =>
              /\ ret.details["email"].count = 2
              /\ ret.details["phone"].count = 1

C13_Witness ==
    /\ op = "get_pii_report"
    /\ arg.t = "list"
    /\ arg \in ReportRecords
    /\ ret.pii_types = <<"email">>
    /\ ret.details["email"].count = 4
    /\ Len(ret.details["email"].examples) = 3
    /\ ret.details["email"].examples[3] = arg.items[3].s

RECURSIVE PlaceholderCount(_, _)
RECURSIVE PlaceholderCountAll(_, _)
\* how many times the placeholder stands in the strings of data
PlaceholderCount(data, placeholder) ==
    CASE data.t = "str" -> Count(data.s, placeholder)
      [] data.t = "dict" -> PlaceholderCountAll(data.vals, placeholder)
      [] data.t \in {"list", "tuple"} -> PlaceholderCountAll(data.items, placeholder)
      [] OTHER -> 0

PlaceholderCountAll(items, placeholder) ==
    IF items = <<>>
    THEN 0
    ELSE PlaceholderCount(Head(items), placeholder)
            + PlaceholderCountAll(Tail(items), placeholder)

\* C17: detect_pii reports a category only if redact of the same record
\* puts that category's placeholder somewhere in its result; a text whose
\* only sensitive part is one 16-digit card number is reported as
\* credit_card and nothing else.
C17_DetectedIsRedacted ==
    op = "detect_pii" =>
        /\ \A pii_type \in ret :
               PlaceholderCount(redact(arg), REPLACEMENTS[pii_type])
                   > PlaceholderCount(arg, REPLACEMENTS[pii_type])
        /\ \A run \in CardRuns :
               (Len(SelectSeq(run, LAMBDA c : c \in Digit)) = 16 /\ arg = PyStr(run))
                   => ret = {"credit_card"}

---------------------------------------------------------------------------
(* Instances built with anonymize_names True and False *)

\* records with a person's name in a field
NameRecords ==
    { PyDict(<< <<"n", "a", "m", "e">>, <<"e", "m", "a", "i", "l">> >>,
             << PyStr(<<"J", "o", "h", "n", " ", "S", "m", "i", "t", "h">>), PyStr(JohnEmail) >>),
      PyDict(<< <<"c", "u", "s", "t", "o", "m", "e", "r">>, <<"c", "o", "s", "t">> >>,
             << PyDict(<< <<"n", "a", "m", "e">> >>, << PyStr(<<"J", "o", "h", "n", " ", "S", "m", "i", "t", "h">>) >>), PyInt(8500) >>),
      PyList(<< PyDict(<< <<"c", "o", "n", "t", "r", "a", "c", "t", "o", "r", "_", "n", "a", "m", "e">> >>, << PyStr(<<"A", "n", "n", " ", "L", "e", "e">>) >>) >>) }

\* PIIRedactor(anonymize_names), and the record the caller starts with
InitNames ==
    /\ op = "init"
    /\ arg \in NameRecords \cup Nest(1)
    /\ ret = PyNone
    /\ cache = <<>>
    /\ anonymize_names \in BOOLEAN
    /\ NoThreads
    /\ NoHeap
    /\ NoCapture

SpecNames == InitNames /\ [][Next]_vars

RECURSIVE PlaceholdersOnly(_)
\* data with the matches in its strings replaced by placeholders and
\* nothing else changed
PlaceholdersOnly(data) ==
    CASE data.t = "str" -> PyStr(AfterCategories(data.s, Len(CategoryOrder)))
      [] data.t = "dict" ->
            PyDict(data.keys, [i \in 1..Len(data.vals) |-> PlaceholdersOnly(data.vals[i])])
      [] data.t = "list" ->
            PyList([i \in 1..Len(data.items) |-> PlaceholdersOnly(data.items[i])])
      [] OTHER -> data

\* C14: an instance built with anonymize_names = False returns the record
\* with placeholders only; one built with True anonymizes the names as
\* well, so for a record with a name in it it returns something else.
C14_NamesToggle ==
    op = "redact" =>
        /\ ~anonymize_names => ret = PlaceholdersOnly(arg)
        /\ (anonymize_names /\ arg \in NameRecords) => ret # PlaceholdersOnly(arg)

---------------------------------------------------------------------------
(* The anonymizer: calls of anonymize on one instance *)

Identifiers == { <<>>, <<"c">>, <<"s", "a", "x", "l", "e", ":", "c">> }

Categories ==
    { <<"a">>, <<"a", ":", "s", "a", "x", "l", "e">>,
      <<"c", "u", "s", "t", "o", "m", "e", "r">>,
      <<"c", "o", "n", "t", "r", "a", "c", "t", "o", "r">> }

Anonymize(identifier, category) ==
    /\ op' = "anonymize"
    /\ arg' = [identifier |-> identifier, category |-> category]
    /\ ret' = anonymize(cache, identifier, category).ret
    /\ cache' = anonymize(cache, identifier, category).cache
    /\ UNCHANGED <<anonymize_names, hvars, cvars, tvars>>

InitAnon == NoCalls /\ NoHeap /\ NoCapture

NextAnon ==
    \E identifier \in Identifiers, category \in Categories :
        Anonymize(identifier, category)

SpecAnon == InitAnon /\ [][NextAnon]_vars

\* C4: anonymize is a pure function of (identifier, category): after any
\* calls it returns category + "_" + the first 6 hex characters of
\* sha256(identifier); the cache never changes the answer.
C4_AnonymizePure ==
    op = "anonymize" =>
        ret = arg.category \o <<"_">> \o Sha256Hex6(arg.identifier)

IsPrefix(p, s) == Len(p) <= Len(s) /\ SubSeq(s, 1, Len(p)) = p

\* C6: after any calls, the same identifier under two distinct categories
\* gets two distinct tokens, each starting with its own category.
C6_CategoriesDiffer ==
    \A identifier \in Identifiers, c1 \in Categories, c2 \in Categories :
        c1 # c2 =>
            LET first == anonymize(cache, identifier, c1)
                second == anonymize(first.cache, identifier, c2)
            IN  /\ first.ret # second.ret
                /\ IsPrefix(c1 \o <<"_">>, first.ret)
                /\ IsPrefix(c2 \o <<"_">>, second.ret)

---------------------------------------------------------------------------
(* One instance: anonymize among the other calls *)

RedactRecord(data) ==
    /\ op' = "redact"
    /\ arg' = data
    /\ ret' = redact(data)
    /\ UNCHANGED <<cache, anonymize_names, hvars, cvars, tvars>>

DetectPiiRecord(data) ==
    /\ op' = "detect_pii"
    /\ arg' = data
    /\ ret' = detect_pii(data)
    /\ UNCHANGED <<cache, anonymize_names, hvars, cvars, tvars>>

ValidateNoPiiRecord(data) ==
    /\ op' = "validate_no_pii"
    /\ arg' = data
    /\ ret' = validate_no_pii(data)
    /\ UNCHANGED <<cache, anonymize_names, hvars, cvars, tvars>>

GetPiiReportRecord(data) ==
    /\ op' = "get_pii_report"
    /\ arg' = data
    /\ ret' = get_pii_report(data)
    /\ UNCHANGED <<cache, anonymize_names, hvars, cvars, tvars>>

ValidateDataForStorageRecord(data) ==
    /\ op' = "validate_data_for_storage"
    /\ arg' = data
    /\ ret' = validate_data_for_storage(data)
    /\ UNCHANGED <<cache, anonymize_names, hvars, cvars, tvars>>

InitCache == NoCalls /\ NoHeap /\ NoCapture

\* the categories the calls of anonymize are made with
CacheCategories ==
    { <<"a">>, <<"a", ":", "s", "a", "x", "l", "e">>,
      <<"c", "u", "s", "t", "o", "m", "e", "r">> }

NextCache ==
    \/ \E identifier \in Identifiers, category \in CacheCategories :
            Anonymize(identifier, category)
    \/ \E data \in NameRecords : RedactRecord(data)
    \/ \E data \in NameRecords : DetectPiiRecord(data)
    \/ \E data \in NameRecords : ValidateNoPiiRecord(data)
    \/ \E data \in NameRecords : GetPiiReportRecord(data)
    \/ \E data \in NameRecords : ValidateDataForStorageRecord(data)

SpecCache == InitCache /\ [][NextCache]_vars

\* C15: the cache only grows. No step removes an entry or changes one; a
\* call of anonymize adds exactly one entry, under its own key, when the key
\* was missing and none when it was there; redact, detect_pii,
\* validate_no_pii, get_pii_report and validate_data_for_storage leave the
\* cache as it was.
C15_CacheOnlyGrows ==
    [][ /\ DOMAIN cache \subseteq DOMAIN cache'
        /\ \A k \in DOMAIN cache : cache'[k] = cache[k]
        /\ op' = "anonymize" =>
                LET cache_key == arg'.category \o <<":">> \o arg'.identifier
                IN  IF cache_key \in DOMAIN cache
                    THEN cache' = cache
                    ELSE DOMAIN cache' = DOMAIN cache \cup {cache_key}
        /\ op' # "anonymize" => cache' = cache ]_vars

\* one of the other calls made on an instance whose cache has entries
C15_Witness ==
    /\ op \in {"redact", "detect_pii", "validate_no_pii", "get_pii_report",
               "validate_data_for_storage"}
    /\ Cardinality(DOMAIN cache) >= 2

---------------------------------------------------------------------------
(* Threads calling anonymize on one shared instance.  The test of line 114 *)
(* and the insert of line 122 are separate steps of a call, and another    *)
(* thread may run between them.                                            *)

\* the identifiers and categories the threads call anonymize with
SharedIdentifiers == { <<"c">>, <<"s", "a", "x", "l", "e", ":", "c">> }

SharedCategories == { <<"a">>, <<"a", ":", "s", "a", "x", "l", "e">> }

\* cache_key = f"{category}:{identifier}"
CacheKey(th) == th.category \o <<":">> \o th.identifier

\* what a finished call gave its caller
Token(th, token) ==
    [identifier |-> th.identifier, category |-> th.category, token |-> token]

\* thread t calls anonymize(identifier, category)
CallAnonymize(t, identifier, category) ==
    /\ thread[t].pc = "idle"
    /\ thread' = [thread EXCEPT ![t] =
            [pc |-> "lookup", identifier |-> identifier, category |-> category]]
    /\ UNCHANGED <<rvars, returned, hvars, cvars>>

\* if cache_key in self._anonymization_cache
Lookup(t) ==
    /\ thread[t].pc = "lookup"
    /\ thread' = [thread EXCEPT ![t].pc =
            IF CacheKey(thread[t]) \in DOMAIN cache THEN "read" ELSE "insert"]
    /\ UNCHANGED <<rvars, returned, hvars, cvars>>

\* return self._anonymization_cache[cache_key]
ReturnCached(t) ==
    /\ thread[t].pc = "read"
    /\ returned' = returned \cup {Token(thread[t], cache[CacheKey(thread[t])])}
    /\ thread' = [thread EXCEPT ![t] = IdleThread]
    /\ UNCHANGED <<rvars, hvars, cvars>>

\* self._anonymization_cache[cache_key] = anonymized; return anonymized
Insert(t) ==
    /\ thread[t].pc = "insert"
    /\ LET anonymized == thread[t].category \o <<"_">> \o Sha256Hex6(thread[t].identifier)
       IN  /\ cache' = (CacheKey(thread[t]) :> anonymized) @@ cache
           /\ returned' = returned \cup {Token(thread[t], anonymized)}
    /\ thread' = [thread EXCEPT ![t] = IdleThread]
    /\ UNCHANGED <<op, arg, ret, anonymize_names, hvars, cvars>>

InitShared == NoCalls /\ NoHeap /\ NoCapture

NextShared ==
    \E t \in Callers :
        \/ \E identifier \in SharedIdentifiers, category \in SharedCategories :
                CallAnonymize(t, identifier, category)
        \/ Lookup(t)
        \/ ReturnCached(t)
        \/ Insert(t)

SpecShared == InitShared /\ [][NextShared]_vars

\* two finished calls with the same identifier and category returned the
\* same token
SameArgumentsSameToken ==
    \A r1 \in returned, r2 \in returned :
        (r1.identifier = r2.identifier /\ r1.category = r2.category)
            => r1.token = r2.token

\* C16: under every interleaving of the threads' steps, calls with the same
\* identifier and category return the same token, each call returns what
\* anonymize returns for its arguments when called alone, and once no call
\* is in progress the cache holds, under each call's key, the token that
\* call returned.
C16_ConcurrentSafe ==
    /\ SameArgumentsSameToken
    /\ \A r \in returned : r.token = anonymize(<<>>, r.identifier, r.category).ret
    /\ (\A t \in Callers : thread[t].pc = "idle") =>
            \A r \in returned :
                /\ CacheKey(r) \in DOMAIN cache
                /\ cache[CacheKey(r)] = r.token

---------------------------------------------------------------------------
(* redact and the objects it is given *)

RECURSIVE Alloc(_, _)
RECURSIVE AllocItems(_, _)
\* the heap h with the value v built in it, and the address of v
Alloc(h, v) ==
    CASE v.t = "dict" ->
            LET r == AllocItems(h, v.vals)
            IN  [h |-> Append(r.h, PyDict(v.keys, r.ids)), id |-> Len(r.h) + 1]
      [] v.t \in {"list", "tuple"} ->
            LET r == AllocItems(h, v.items)
            IN  [h |-> Append(r.h, [t |-> v.t, items |-> r.ids]), id |-> Len(r.h) + 1]
      [] OTHER -> [h |-> Append(h, v), id |-> Len(h) + 1]

AllocItems(h, vs) ==
    IF vs = <<>>
    THEN [h |-> h, ids |-> <<>>]
    ELSE LET first == Alloc(h, Head(vs))
             rest == AllocItems(first.h, Tail(vs))
         IN  [h |-> rest.h, ids |-> <<first.id>> \o rest.ids]

RECURSIVE Deref(_, _)
\* the value at address id
Deref(h, id) ==
    CASE h[id].t = "dict" ->
            PyDict(h[id].keys, [i \in 1..Len(h[id].vals) |-> Deref(h, h[id].vals[i])])
      [] h[id].t \in {"list", "tuple"} ->
            [t |-> h[id].t, items |-> [i \in 1..Len(h[id].items) |-> Deref(h, h[id].items[i])]]
      [] OTHER -> h[id]

\* records that hold a list or mapping inside a value redact does not recognise
Wrapped == {PyTuple(<<v>>) : v \in Nest(1)}
             \cup {PyDict(<< <<"k">> >>, << PyTuple(<<v>>) >>) : v \in Nest(1)}

HeapInputs == Nest(MaxDepth) \cup Wrapped

\* how many objects the heap may hold when redact is called
MaxHeap == 12

\* redactor.redact(x), x being the caller's record or what redact returned
RedactObject(id) ==
    /\ Len(heap) <= MaxHeap
    /\ before' = heap
    /\ root' = id
    /\ heap' = redact_heap(heap, id).h
    /\ res' = redact_heap(heap, id).id
    /\ UNCHANGED <<rvars, cvars, tvars>>

InitHeap ==
    /\ NoCalls
    /\ \E v \in HeapInputs :
          /\ heap = Alloc(<<>>, v).h
          /\ root = Alloc(<<>>, v).id
    /\ res = 0
    /\ before = heap
    /\ NoCapture

NextHeap == \E id \in {root} \cup ({res} \ {0}) : RedactObject(id)

SpecHeap == InitHeap /\ [][NextHeap]_vars

\* the addresses an object holds
Refs(o) ==
    CASE o.t = "dict" -> Range(o.vals)
      [] o.t \in {"list", "tuple"} -> Range(o.items)
      [] OTHER -> {}

RECURSIVE Reach(_, _, _)
\* the objects reached from id, descending into the objects of the types in
\* through
Reach(h, id, through) ==
    {id} \cup (IF h[id].t \in through
               THEN UNION {Reach(h, c, through) : c \in Refs(h[id])}
               ELSE {})

\* redact left every object of the heap it was given as it was
InputUntouched == \A id \in DOMAIN before : heap[id] = before[id]

\* C8 (as stated): redact does not mutate its input, and every dict and list
\* in the result is a new object, not one of the input.
C8_FreshContainers ==
    res # 0 =>
        /\ InputUntouched
        /\ \A id \in Reach(heap, res, {"dict", "list", "tuple"}) :
              heap[id].t \in {"dict", "list"} => id \notin DOMAIN before

\* C8 (amended): redact does not mutate its input, and every dict and list
\* of the result reached through dicts and lists is a new object; a value of
\* a type redact does not recognise is returned as it is, with the lists and
\* dicts it holds.
C8_FreshNestedContainers ==
    res # 0 =>
        /\ InputUntouched
        /\ Deref(heap, root) = Deref(before, root)
        /\ Deref(heap, res) = redact(Deref(before, root))
        /\ \A id \in Reach(heap, res, {"dict", "list"}) :
              heap[id].t \in {"dict", "list"} => id \notin DOMAIN before

C8_Witness ==
    /\ res # 0
    /\ before[root].t = "dict"
    /\ heap[res].t = "dict"
    /\ \E id \in Reach(heap, res, {"dict", "list"}) :
          heap[id].t = "list" /\ id # res /\ Len(heap[id].items) = 2
    /\ Deref(heap, res) # Deref(heap, root)

---------------------------------------------------------------------------
(* FeedbackSignalCapture: a capture call runs its statements one at a      *)
(* time; what does not depend on the code (the clock, the wrapped          *)
(* function, the upload to S3, whether the privacy package is installed)   *)
(* is chosen freely.                                                       *)

_get_model_version == <<"c", "l", "a", "u", "d", "e", "-", "3", "-", "5", "-", "s", "o", "n", "n", "e", "t", "-", "2", "0", "2", "4", "1", "0", "2", "2", "-", "v", "2", ":", "0">>

Unknown == PyStr(<<"u", "n", "k", "n", "o", "w", "n">>)

DictHas(d, k) == \E i \in 1..Len(d.keys) : d.keys[i] = k

\* d.get(k, default)
DictGet(d, k, default) ==
    IF DictHas(d, k)
    THEN d.vals[CHOOSE i \in 1..Len(d.keys) : d.keys[i] = k]
    ELSE default

\* the lookup _extract_workflow_id and _extract_project_id both make
ExtractId(args, kwargs, name) ==
    IF DictHas(kwargs, name) THEN DictGet(kwargs, name, Unknown)
    ELSE IF args # <<>> /\ args[1].t = "dict" /\ DictHas(args[1], name)
         THEN DictGet(args[1], name, Unknown)
    ELSE Unknown

_extract_workflow_id(args, kwargs) == ExtractId(args, kwargs, <<"w", "o", "r", "k", "f", "l", "o", "w", "_", "i", "d">>)

_extract_project_id(args, kwargs) == ExtractId(args, kwargs, <<"p", "r", "o", "j", "e", "c", "t", "_", "i", "d">>)

SignalKeys ==
    << <<"s", "i", "g", "n", "a", "l", "_", "t", "y", "p", "e">>,
       <<"t", "i", "m", "e", "s", "t", "a", "m", "p">>,
       <<"w", "o", "r", "k", "f", "l", "o", "w", "_", "i", "d">>,
       <<"p", "r", "o", "j", "e", "c", "t", "_", "i", "d">>,
       <<"m", "o", "d", "e", "l", "_", "v", "e", "r", "s", "i", "o", "n">>,
       <<"d", "a", "t", "a">> >>

\* the signal dict the wrapper of capture_signal builds
WrapperSignal(signal_type, timestamp, args, kwargs, result) ==
    PyDict(SignalKeys,
           << PyStr(signal_type), PyStr(timestamp),
              _extract_workflow_id(args, kwargs),
              _extract_project_id(args, kwargs),
              PyStr(_get_model_version), result >>)

\* the signal dict capture_manual_signal builds
ManualSignal(signal_type, timestamp, data) ==
    PyDict(SignalKeys,
           << PyStr(signal_type), PyStr(timestamp),
              DictGet(data, <<"w", "o", "r", "k", "f", "l", "o", "w", "_", "i", "d">>, Unknown),
              DictGet(data, <<"p", "r", "o", "j", "e", "c", "t", "_", "i", "d">>, Unknown),
              PyStr(_get_model_version), data >>)

\* the two expressions of the except ImportError branch
FallbackEmail ==
    <<WB, Rep(EmailLocal, 1, Unbounded), Lit("@"),
      Rep(EmailDomain, 1, Unbounded), Lit("."), Rep(Letter, 2, Unbounded), WB>>

FallbackPhone ==
    <<Rep({"("}, 0, 1), Rep(Digit, 3, 3), Rep({")"}, 0, 1),
      Rep(PhoneSep, 0, 1), Rep(Digit, 3, 3), Rep(PhoneSep, 0, 1),
      Rep(Digit, 4, 4), WB>>

\* _redact_pii: redactor.redact(signal) where the import succeeds, else the
\* signal as JSON text, two substitutions, and the text parsed again.
\* raised is TRUE where json.loads raises.
_redact_pii(sig, can_import) ==
    IF can_import
    THEN [raised |-> FALSE, v |-> redact(sig)]
    ELSE LET signal_str == json_dumps(sig)
             no_emails == re_sub(FallbackEmail, REPLACEMENTS["email"], signal_str)
             no_phones == re_sub(FallbackPhone, REPLACEMENTS["phone"], no_emails)
             loaded == json_loads(no_phones)
         IN  [raised |-> ~loaded.ok, v |-> loaded.v]

\* the object key _send_to_data_lake writes to
ObjectKey(sig, date) ==
    <<"s", "i", "g", "n", "a", "l", "s", "/">> \o str(DictGet(sig, <<"s", "i", "g", "n", "a", "l", "_", "t", "y", "p", "e">>, PyNone)) \o <<"/">>
    \o date \o <<"/">> \o str(DictGet(sig, <<"t", "i", "m", "e", "s", "t", "a", "m", "p">>, PyNone))
    \o <<".", "j", "s", "o", "n">>

negative_signals ==
    { <<"e", "s", "t", "i", "m", "a", "t", "e", "_", "r", "e", "j", "e", "c", "t", "e", "d">>,
      <<"i", "n", "a", "c", "c", "u", "r", "a", "t", "e", "_", "e", "s", "t", "i", "m", "a", "t", "e">>,
      <<"s", "c", "h", "e", "d", "u", "l", "i", "n", "g", "_", "c", "o", "n", "f", "l", "i", "c", "t">>,
      <<"l", "o", "w", "_", "s", "a", "t", "i", "s", "f", "a", "c", "t", "i", "o", "n">> }

---------------------------------------------------------------------------
(* The capture calls on one FeedbackSignalCapture *)

\* the decorated functions: the signal type each was decorated with, the
\* arguments it is called with and what it returns
DecoratedFunctions ==
    { [kind |-> "wrapper", signal_type |-> <<"e", "s", "t", "i", "m", "a", "t", "e", "_", "a", "c", "c", "e", "p", "t", "e", "d">>,
       args |-> << PyDict(<<<<"w", "o", "r", "k", "f", "l", "o", "w", "_", "i", "d">>, <<"t", "o", "t", "a", "l">>>>, <<PyStr(<<"w", "f", "-", "1">>), PyInt(8500)>>) >>,
       kwargs |-> PyDict(<<>>, <<>>),
       result |-> PyDict(<<<<"e", "s", "t", "i", "m", "a", "t", "e", "d", "_", "c", "o", "s", "t">>, <<"a", "c", "t", "u", "a", "l", "_", "a", "p", "p", "r", "o", "v", "a", "l">>>>,
                         <<PyInt(8500), PyBool(TRUE)>>)],
      [kind |-> "wrapper", signal_type |-> <<"e", "s", "t", "i", "m", "a", "t", "e", "_", "r", "e", "j", "e", "c", "t", "e", "d">>,
       args |-> << >>,
       kwargs |-> PyDict(<<<<"p", "r", "o", "j", "e", "c", "t", "_", "i", "d">>>>, <<PyStr(<<"p", "-", "7">>)>>),
       result |-> PyDict(<<<<"c", "u", "s", "t", "o", "m", "e", "r", "_", "e", "m", "a", "i", "l">>, <<"s", "s", "n">>>>,
                         <<PyStr(JohnEmail), PyStr(<<"1", "2", "3", "-", "4", "5", "-", "6", "7", "8", "9">>)>>)],
      [kind |-> "wrapper", signal_type |-> <<"e", "s", "t", "i", "m", "a", "t", "e", "_", "a", "c", "c", "e", "p", "t", "e", "d">>,
       args |-> << PyStr(<<"x">>) >>,
       kwargs |-> PyDict(<<>>, <<>>),
       result |-> PyDict(<<<<"p", "h", "o", "n", "e">>>>, <<PyInt(2025550123)>>)] }

\* the calls of capture_manual_signal
ManualSignals ==
    { [kind |-> "manual", signal_type |-> <<"i", "n", "a", "c", "c", "u", "r", "a", "t", "e", "_", "e", "s", "t", "i", "m", "a", "t", "e">>,
       data |-> PyDict(<<<<"w", "o", "r", "k", "f", "l", "o", "w", "_", "i", "d">>, <<"c", "o", "n", "t", "a", "c", "t">>>>,
                       <<PyStr(<<"w", "f", "-", "3">>), PyStr(<<"5", "5", "5", "-", "1", "2", "3", "-", "4", "5", "6", "7">>)>>)],
      [kind |-> "manual", signal_type |-> <<"e", "s", "t", "i", "m", "a", "t", "e", "_", "a", "c", "c", "e", "p", "t", "e", "d">>,
       data |-> PyDict(<<<<"c", "a", "r", "d">>>>, <<PyStr(<<"4", "5", "3", "2", "-", "1", "2", "3", "4", "-", "5", "6", "7", "8", "-", "9", "0", "1", "0">>)>>)] }

\* readings of datetime.utcnow(): isoformat() and strftime("%Y/%m/%d");
\* isoformat leaves out a microsecond of 0
Clock ==
    { [iso |-> <<"2", "0", "2", "6", "-", "1", "1", "-", "0", "5", "T", "0", "9", ":", "3", "2", ":", "1", "1", ".", "1", "2", "3", "4", "5", "6">>,
       date |-> <<"2", "0", "2", "6", "/", "1", "1", "/", "0", "5">>],
      [iso |-> <<"2", "0", "2", "6", "-", "1", "1", "-", "0", "5", "T", "0", "9", ":", "3", "2", ":", "1", "2">>,
       date |-> <<"2", "0", "2", "6", "/", "1", "1", "/", "0", "5">>] }

MaxCalls == 2

Raised(exception) == [kind |-> "raised", v |-> PyStr(exception)]

Returned(v) == [kind |-> "returned", v |-> v]

\* a call of c starts: no statement of it has run
Enter(c) ==
    /\ pc = "idle"
    /\ calls < MaxCalls
    /\ calls' = calls + 1
    /\ call' = c
    /\ signal' = PyNone
    /\ clean_signal' = PyNone
    /\ steps' = <<>>
    /\ printed' = <<>>
    /\ outcome' = NoOutcome

\* a decorated function is called
CallWrapper(f) ==
    /\ Enter(f)
    /\ pc' = "func"
    /\ UNCHANGED <<importable, handed, lake, rvars, hvars, tvars>>

\* capture_manual_signal(signal_type, data) is called
CaptureManualSignal(m) ==
    /\ Enter(m)
    /\ pc' = "signal"
    /\ UNCHANGED <<importable, handed, lake, rvars, hvars, tvars>>

\* result = func(*args, **kwargs)
ExecuteFunction ==
    /\ pc = "func"
    /\ steps' = Append(steps, "func")
    /\ pc' = "signal"
    /\ UNCHANGED <<importable, calls, call, signal, clean_signal, printed,
                   outcome, handed, lake, rvars, hvars, tvars>>

\* func raises: the wrapper does nothing more
FunctionRaises ==
    /\ pc = "func"
    /\ outcome' = Raised(<<"E", "x", "c", "e", "p", "t", "i", "o", "n">>)
    /\ pc' = "idle"
    /\ UNCHANGED <<importable, calls, call, signal, clean_signal, steps,
                   printed, handed, lake, rvars, hvars, tvars>>

\* signal = {...}
BuildSignal(now) ==
    /\ pc = "signal"
    /\ signal' = IF call.kind = "wrapper"
                 THEN WrapperSignal(call.signal_type, now.iso, call.args,
                                    call.kwargs, call.result)
                 ELSE ManualSignal(call.signal_type, now.iso, call.data)
    /\ steps' = Append(steps, "signal")
    /\ pc' = "redact"
    /\ UNCHANGED <<importable, calls, call, clean_signal, printed, outcome,
                   handed, lake, rvars, hvars, tvars>>

\* clean_signal = self._redact_pii(signal); what json.loads raises in the
\* fallback is not caught
RedactPii ==
    /\ pc = "redact"
    /\ LET r == _redact_pii(signal, importable)
       IN  IF r.raised
           THEN /\ outcome' = Raised(<<"J", "S", "O", "N", "D", "e", "c", "o", "d", "e",
                                       "E", "r", "r", "o", "r">>)
                /\ pc' = "idle"
                /\ UNCHANGED <<clean_signal, steps>>
           ELSE /\ clean_signal' = r.v
                /\ steps' = Append(steps, "_redact_pii")
                /\ pc' = "send"
                /\ UNCHANGED outcome
    /\ UNCHANGED <<importable, calls, call, signal, printed, handed, lake,
                   rvars, hvars, tvars>>

\* a _send_to_data_lake that lets the failure of put_object out
SendToDataLake_raising(now, uploaded) ==
    /\ pc = "send"
    /\ handed' = handed \cup
                   {[record |-> clean_signal,
                     by |-> IF importable THEN "PIIRedactor.redact" ELSE "fallback"]}
    /\ LET key == ObjectKey(clean_signal, now.date)
       IN  lake' = IF uploaded
                   THEN [k \in DOMAIN lake \cup {key} |->
                            IF k = key THEN clean_signal ELSE lake[k]]
                   ELSE lake
    /\ printed' = IF uploaded THEN Append(printed, "sent") ELSE printed
    /\ steps' = Append(steps, "_send_to_data_lake")
    /\ outcome' = IF uploaded THEN outcome
                  ELSE Raised(<<"C", "l", "i", "e", "n", "t", "E", "r", "r", "o", "r">>)
    /\ pc' = IF uploaded THEN "check" ELSE "idle"
    /\ UNCHANGED <<importable, calls, call, signal, clean_signal,
                   rvars, hvars, tvars>>

\* self._send_to_data_lake(clean_signal): put_object stores the record as
\* JSON text under the key, or raises, which the except branch prints
SendToDataLake(now, uploaded) ==
    /\ pc = "send"
    /\ handed' = handed \cup
                   {[record |-> clean_signal,
                     by |-> IF importable THEN "PIIRedactor.redact" ELSE "fallback"]}
    /\ LET key == ObjectKey(clean_signal, now.date)
       IN  lake' = IF uploaded
                   THEN [k \in DOMAIN lake \cup {key} |->
                            IF k = key THEN clean_signal ELSE lake[k]]
                   ELSE lake
    /\ printed' = Append(printed, IF uploaded THEN "sent" ELSE "failed")
    /\ steps' = Append(steps, "_send_to_data_lake")
    /\ pc' = "check"
    /\ UNCHANGED <<importable, calls, call, signal, clean_signal, outcome,
                   rvars, hvars, tvars>>

\* self._check_retraining_triggers(signal_type, clean_signal)
CheckRetrainingTriggers ==
    /\ pc = "check"
    /\ printed' = IF call.signal_type \in negative_signals
                  THEN Append(printed, "negative") ELSE printed
    /\ steps' = Append(steps, "_check_retraining_triggers")
    /\ pc' = "return"
    /\ UNCHANGED <<importable, calls, call, signal, clean_signal, outcome,
                   handed, lake, rvars, hvars, tvars>>

\* return result; capture_manual_signal returns None
Return ==
    /\ pc = "return"
    /\ outcome' = Returned(IF call.kind = "wrapper" THEN call.result ELSE PyNone)
    /\ steps' = Append(steps, "return")
    /\ pc' = "idle"
    /\ UNCHANGED <<importable, calls, call, signal, clean_signal, printed,
                   handed, lake, rvars, hvars, tvars>>

\* FeedbackSignalCapture.__init__, in a deployment with or without the
\* zevbit_data_flywheel package
InitCapture ==
    /\ NoCalls
    /\ NoHeap
    /\ importable \in BOOLEAN
    /\ CaptureIdle

NextCapture ==
    \/ \E f \in DecoratedFunctions : CallWrapper(f)
    \/ \E m \in ManualSignals : CaptureManualSignal(m)
    \/ ExecuteFunction
    \/ FunctionRaises
    \/ \E now \in Clock : BuildSignal(now)
    \/ RedactPii
    \/ \E now \in Clock, uploaded \in BOOLEAN : SendToDataLake(now, uploaded)
    \/ CheckRetrainingTriggers
    \/ Return

SpecCapture == InitCapture /\ [][NextCapture]_vars

\* C5: every record _send_to_data_lake is called with is the output of
\* PIIRedactor.redact, and validate_data_for_storage finds it compliant.
C5_GateBeforeSend ==
    \A h \in handed :
        /\ h.by = "PIIRedactor.redact"
        /\ validate_data_for_storage(h.record).compliant

\* the steps of the wrapper, in the order of its statements
WrapperSteps ==
    << "func", "signal", "_redact_pii", "_send_to_data_lake",
       "_check_retraining_triggers", "return" >>

\* C18: a call of a decorated function runs the function, builds the
\* signal, redacts it, hands the redacted signal to _send_to_data_lake and
\* checks the retraining triggers, in this order.  Whether the upload
\* succeeds or fails, one line is printed, nothing is raised, the upload is
\* tried once, the call cannot finish without the trigger check, and it
\* returns the value the function returned.
C18_CaptureOrder ==
    call.kind = "wrapper" =>
        /\ IsPrefix(steps, WrapperSteps)
        /\ Len(steps) >= 3 =>
               /\ clean_signal = _redact_pii(signal, importable).v
               /\ outcome.kind # "raised"
        /\ Len(steps) >= 4 =>
               /\ \E h \in handed : h.record = clean_signal
               /\ Len(SelectSeq(printed, LAMBDA line : line \in {"sent", "failed"})) = 1
               /\ pc \in {"check", "return", "idle"}
               /\ pc = "idle" =>
                      /\ steps = WrapperSteps
                      /\ outcome = Returned(call.result)

\* a call whose upload failed has finished: the function's result holds
\* an address, the signal that was handed on does not
C18_Witness ==
    /\ call.kind = "wrapper"
    /\ pc = "idle"
    /\ steps = WrapperSteps
    /\ "failed" \in Range(printed)
    /\ "negative" \in Range(printed)
    /\ outcome = Returned(call.result)
    /\ clean_signal # signal

====
